---- MODULE Spec2Model ----
(***************************************************************************)
(* Connection / orchestration layer of pythonequipmentdrivers:              *)
(*   - Scpi_Instrument.open_instrument and the class-level list             *)
(*     _serial_instruments (core.py, __core.py)                              *)
(*   - EnvironmentSetup.__init__ / __make_connections / initiaize_device    *)
(*     (__core.py)                                                           *)
(*   - Scpi_Instrument.__eq__ / __ne__ and identify_devices (core.py)        *)
(*   - Dmms.fetch_data and Dmms.init (__core.py)                             *)
(*   - the timeout property, set_local and query of Scpi_Instrument, and    *)
(*     Gpib_Interface.group_execute_trigger (core.py, __core.py)             *)
(*   - write, query and trigger of Fluke_45 on a serial port                *)
(*     (multimeter/Fluke_45.py)                                              *)
(*   - wait_unit (utility/flow_control.py)                                   *)
(*                                                                           *)
(* A VISA resource string is a sequence of tokens.  The tokens never        *)
(* overlap character-wise, so Python's substring test on the text is the    *)
(* contiguous-subsequence test on the tokens.  "asrl" is the lower-case     *)
(* spelling of "ASRL"; every other token is its own upper-case form.        *)
(***************************************************************************)
EXTENDS Integers, Sequences, FiniteSets, TLC

\* ------------------------------------------------------------------ bounds
MaxSessions == 3      \* direct Scpi_Instrument constructions per behaviour
MaxCalls == 1         \* open_instrument calls per concurrent caller
MaxDevices == 2       \* devices of one configuration
MaxInit == 1          \* (method, args) pairs of one init sequence
MaxPairs == 3         \* (method, args) pairs handed to initiaize_device called on its own
MaxHandles == 2       \* handles the two objects of a comparison may hold
MaxMembers == 2       \* meters of one Dmms group
MaxLocators == 4      \* locators rm.list_resources() returns
MaxQueries == 2       \* queries per concurrent caller
MaxOps == 6           \* operations called on the serial meter
MaxDepth == 3         \* nested calls the interpreter allows before RecursionError
MaxTriggered == 3     \* sessions named in one group trigger
MaxReadings == 3      \* readings of meas_func before the quantity settles
MaxValue == 2         \* readings and limits are 0..MaxValue

\* ------------------------------------------------------------- text model
ASRL1_INSTR  == <<"ASRL", "1", "::", "INSTR">>
ASRL1_RAW    == <<"ASRL", "1", "::", "RAW">>
asrl1_INSTR  == <<"asrl", "1", "::", "INSTR">>
ASRL10_INSTR == <<"ASRL", "1", "0", "::", "INSTR">>
GPIB0_INSTR  == <<"GPIB0", "::", "1", "::", "INSTR">>

Addresses == {ASRL1_INSTR, ASRL1_RAW, asrl1_INSTR, ASRL10_INSTR, GPIB0_INSTR}

\* str.upper()
Upper(s) == [i \in DOMAIN s |-> IF s[i] = "asrl" THEN "ASRL" ELSE s[i]]

\* Python's  sub in s
Contains(sub, s) ==
    \E i \in 0..(Len(s) - Len(sub)) : SubSeq(s, i + 1, i + Len(sub)) = sub

\* s.split("::")[0]
SplitFirst(s) ==
    IF \E i \in DOMAIN s : s[i] = "::"
    THEN LET k == CHOOSE i \in DOMAIN s :
                    /\ s[i] = "::"
                    /\ \A j \in 1..(i - 1) : s[j] # "::"
         IN SubSeq(s, 1, k - 1)
    ELSE s

\* the test of open_instrument's first branch:  "ASRL" in address.upper()
IsSerial(address) == Contains(<<"ASRL">>, Upper(address))

\* --------------------------------------------------------------- the state
VARIABLES
    serial_instruments, \* Scpi_Instrument._serial_instruments: <<addr, inst>> pairs
    opened,             \* handle h is the result of the h-th successful rm.open_resource; opened[h] is its locator
    openCount,          \* number of rm.open_resource calls made, failed ones included
    sessions,           \* the Scpi_Instrument objects constructed so far, in order
    nDirect,            \* number of direct constructions attempted
    lastCall,           \* address and result of the latest sequential open_instrument call
    pc, taddr, tinst, tret, ncalls, \* concurrent callers of open_instrument
    epc,                \* where EnvironmentSetup.__init__ stands
    args,               \* its arguments: equipment_setup (the keys), object_mask, init_devices, verbose
    attrs,              \* vars(self) of the EnvironmentSetup object
    config,             \* keys of the configuration dict, in iteration order
    idx,                \* position of the for loop of __make_connections
    dmms,               \* the local dict dmms of __make_connections
    lastInit,           \* what initiaize_device did in the latest iteration
    events,             \* what has been printed
    trace,              \* one record per loop iteration: what happened to the device
    fcall,              \* the latest call of a module-level function or of a method: its name and arguments
    fret,               \* what that call returned, printed and raised
    qpc, nq,            \* concurrent callers of query: where each stands, how many queries it has made
    traffic,            \* the writes and reads made on the handle the callers share, in order
    rx,                 \* Fluke_45 on a serial port: the lines received and not read yet
    nops,               \* the operations called on that meter so far
    answer,             \* what its last operation returned and raised
    timeouts,           \* the timeout attribute of each handle, by handle
    assigned            \* per session: the timeout last given through that session

vars == <<serial_instruments, opened, openCount, sessions, nDirect, lastCall,
          pc, taddr, tinst, tret, ncalls,
          epc, args, attrs, config, idx, dmms, lastInit, events, trace,
          fcall, fret,
          qpc, nq, traffic, rx, nops, answer,
          timeouts, assigned>>

Threads == {1, 2}
None == 0             \* no handle; handles are 1, 2, ...
NoMask == [given |-> FALSE, names |-> {}]     \* object_mask=None

regVars == <<serial_instruments, opened, openCount>>
thrVars == <<pc, taddr, tinst, tret, ncalls>>
envVars == <<epc, args, attrs, config, idx, dmms, lastInit, events, trace>>
funVars == <<fcall, fret>>
qryVars == <<qpc, nq, traffic>>
flkVars == <<rx, nops, answer>>
ioVars == <<qryVars, flkVars>>
sesVars == <<timeouts, assigned>>

\* ------------------------------------------------------- open_instrument
\* the for loop of open_instrument: the handle of the first entry whose addr
\* is a substring of address.upper(), None when no entry matches
RegistryLookup(reg, address) ==
    IF \E i \in DOMAIN reg : Contains(reg[i][1], Upper(address))
    THEN LET k == CHOOSE i \in DOMAIN reg :
                    /\ Contains(reg[i][1], Upper(address))
                    /\ \A j \in 1..(i - 1) : ~Contains(reg[j][1], Upper(address))
         IN reg[k][2]
    ELSE None

\* the entry appended after a successful open of a serial locator
RegistryAppend(reg, address, inst) == Append(reg, <<SplitFirst(address), inst>>)

\* does open_instrument call rm.open_resource for this address?
NeedsOpen(reg, address) ==
    IF IsSerial(address) THEN RegistryLookup(reg, address) = None ELSE TRUE

\* a failing open that is attempted a second time
OpenResourceRaises_Retries(reg, opn, cnt) == <<None, reg, opn, cnt + 2>>

\* rm.open_resource raised: one attempt was made, nothing else changed
OpenResourceRaises(reg, opn, cnt) == <<None, reg, opn, cnt + 1>>

\* open_instrument whose last branch also registers the handle it opens
OpenInstrument_RegistersAll(reg, opn, cnt, address, ok) ==
    IF IsSerial(address) /\ RegistryLookup(reg, address) # None
    THEN <<RegistryLookup(reg, address), reg, opn, cnt>>
    ELSE IF ok
         THEN <<Len(opn) + 1, RegistryAppend(reg, address, Len(opn) + 1),
                Append(opn, address), cnt + 1>>
         ELSE <<None, reg, opn, cnt + 1>>

\* open_instrument as one call.  ok is the outcome of rm.open_resource when it
\* is called (FALSE: it raises VisaIOError, which open_instrument lets through).
\* The result is <<returned handle or None when it raised, registry, opened, openCount>>.
OpenInstrument(reg, opn, cnt, address, ok) ==
    IF IsSerial(address)
    THEN IF RegistryLookup(reg, address) # None
         THEN <<RegistryLookup(reg, address), reg, opn, cnt>>
         ELSE IF ok
              THEN <<Len(opn) + 1,
                     RegistryAppend(reg, address, Len(opn) + 1),
                     Append(opn, address), cnt + 1>>
              ELSE OpenResourceRaises(reg, opn, cnt)
    ELSE IF ok
         THEN <<Len(opn) + 1, reg, Append(opn, address), cnt + 1>>
         ELSE OpenResourceRaises(reg, opn, cnt)

\* keyword arguments of a constructor: none, or timeout=5000
NoKwargs == 0
Kwargs == {NoKwargs, 5000}

\* kwargs.get('timeout', 1000)
KwargsGet(kwargs) == IF kwargs = NoKwargs THEN 1000 ELSE kwargs

\* handle.timeout = timeout: the attribute lives on the handle
SetHandleTimeout(tmo, handle, timeout) ==
    [h \in (DOMAIN tmo) \cup {handle} |-> IF h = handle THEN timeout ELSE tmo[h]]

\* Scpi_Instrument.__init__(address, **kwargs): the session exists only when
\* open_instrument returned, and its timeout is then set through the property
NewInstrument(address, ok, kwargs) ==
    /\ nDirect < MaxSessions
    /\ LET r == OpenInstrument(serial_instruments, opened, openCount, address, ok)
       IN /\ serial_instruments' = r[2]
          /\ opened' = r[3]
          /\ openCount' = r[4]
          /\ sessions' = IF r[1] # None
                         THEN Append(sessions, [address |-> address, instrument |-> r[1]])
                         ELSE sessions
          /\ lastCall' = [address |-> address, ret |-> r[1]]
          /\ timeouts' = IF r[1] # None
                         THEN SetHandleTimeout(timeouts, r[1], KwargsGet(kwargs))
                         ELSE timeouts
          /\ assigned' = IF r[1] # None
                         THEN Append(assigned, KwargsGet(kwargs))
                         ELSE assigned
    /\ nDirect' = nDirect + 1
    /\ UNCHANGED <<thrVars, envVars, funVars, ioVars>>

\* no call made yet, and a call that has not returned yet
NoCall == [fn |-> "none"]
NoLine == <<>>         \* None where a line read from the meter may stand
NoAnswer == [fn |-> "none", ret |-> NoLine, raised |-> "none"]
Pending == [raised |-> "pending"]

\* nothing constructed: the class attribute as core.py:57 leaves it
InitObjects ==
    /\ serial_instruments = <<>>
    /\ opened = <<>>
    /\ openCount = 0
    /\ sessions = <<>>
    /\ nDirect = 0
    /\ pc = [t \in Threads |-> "idle"]
    /\ taddr = [t \in Threads |-> <<>>]
    /\ tinst = [t \in Threads |-> None]
    /\ tret = [t \in Threads |-> None]
    /\ ncalls = [t \in Threads |-> 0]
    /\ lastCall = [address |-> <<>>, ret |-> None]
    /\ epc = "idle"
    /\ args = [equipment_setup |-> <<>>, object_mask |-> NoMask,
               init_devices |-> FALSE, verbose |-> TRUE]
    /\ attrs = <<>>
    /\ config = <<>>
    /\ idx = 0
    /\ dmms = <<>>
    /\ lastInit = [executed |-> <<>>, warnings |-> 0, raised |-> "none"]
    /\ events = <<>>
    /\ trace = <<>>
    /\ qpc = [t \in Threads |-> "idle"]
    /\ nq = [t \in Threads |-> 0]
    /\ traffic = <<>>
    /\ rx = <<>>
    /\ nops = 0
    /\ answer = NoAnswer
    /\ timeouts = <<>>
    /\ assigned = <<>>

Init ==
    /\ InitObjects
    /\ fcall = NoCall
    /\ fret = Pending

Next ==
    \E address \in Addresses, ok \in BOOLEAN, kwargs \in Kwargs :
        NewInstrument(address, ok, kwargs)

Spec == Init /\ [][Next]_vars

\* ------------------------------------- open_instrument, statement by statement
\* Two callers (threads of the hosting application) run open_instrument on
\* the shared class attribute; the code takes no lock, so the registry scan,
\* rm.open_resource and the append are separate steps.

\* a caller enters open_instrument(address)
Call(t, address) ==
    /\ pc[t] = "idle"
    /\ ncalls[t] < MaxCalls
    /\ pc' = [pc EXCEPT ![t] = "check"]
    /\ taddr' = [taddr EXCEPT ![t] = address]
    /\ tinst' = [tinst EXCEPT ![t] = None]
    /\ tret' = [tret EXCEPT ![t] = None]
    /\ ncalls' = [ncalls EXCEPT ![t] = @ + 1]
    /\ UNCHANGED <<regVars, sessions, nDirect, lastCall, envVars, funVars, ioVars, sesVars>>

\* the test on "ASRL" and the scan of _serial_instruments
Check(t) ==
    /\ pc[t] = "check"
    /\ IF ~NeedsOpen(serial_instruments, taddr[t])
       THEN /\ tret' = [tret EXCEPT ![t] = RegistryLookup(serial_instruments, taddr[t])]
            /\ sessions' = Append(sessions,
                   [address |-> taddr[t],
                    instrument |-> RegistryLookup(serial_instruments, taddr[t])])
            /\ pc' = [pc EXCEPT ![t] = "idle"]
       ELSE /\ pc' = [pc EXCEPT ![t] = "open"]
            /\ UNCHANGED <<tret, sessions>>
    /\ UNCHANGED <<regVars, nDirect, lastCall, envVars, funVars, ioVars, sesVars, taddr, tinst, ncalls>>

\* rm.open_resource(address); a non-serial caller returns its result at once
OpenResource(t, ok) ==
    /\ pc[t] = "open"
    /\ openCount' = openCount + 1
    /\ IF ok
       THEN /\ opened' = Append(opened, taddr[t])
            /\ tinst' = [tinst EXCEPT ![t] = Len(opened) + 1]
            /\ IF IsSerial(taddr[t])
               THEN /\ pc' = [pc EXCEPT ![t] = "append"]
                    /\ UNCHANGED <<tret, sessions>>
               ELSE /\ pc' = [pc EXCEPT ![t] = "idle"]
                    /\ tret' = [tret EXCEPT ![t] = Len(opened) + 1]
                    /\ sessions' = Append(sessions,
                           [address |-> taddr[t], instrument |-> Len(opened) + 1])
       ELSE /\ pc' = [pc EXCEPT ![t] = "idle"]
            /\ UNCHANGED <<opened, tinst, tret, sessions>>
    /\ UNCHANGED <<serial_instruments, nDirect, lastCall, envVars, funVars, ioVars, sesVars, taddr, ncalls>>

\* type(self)._serial_instruments.append(...); return instrument
AppendEntry(t) ==
    /\ pc[t] = "append"
    /\ serial_instruments' = RegistryAppend(serial_instruments, taddr[t], tinst[t])
    /\ tret' = [tret EXCEPT ![t] = tinst[t]]
    /\ sessions' = Append(sessions, [address |-> taddr[t], instrument |-> tinst[t]])
    /\ pc' = [pc EXCEPT ![t] = "idle"]
    /\ UNCHANGED <<opened, openCount, nDirect, lastCall, envVars, funVars, ioVars, sesVars, taddr, tinst, ncalls>>

NextConc ==
    \/ \E t \in Threads, address \in Addresses : Call(t, address)
    \/ \E t \in Threads : Check(t)
    \/ \E t \in Threads, ok \in BOOLEAN : OpenResource(t, ok)
    \/ \E t \in Threads : AppendEntry(t)

SpecConc == Init /\ [][NextConc]_vars

\* --------------------------------------------------------- EnvironmentSetup
\* The key sets of the configuration documents explored.  "object_mask" and
\* "configuration" are also attributes EnvironmentSetup sets on itself, "dmms"
\* is the attribute it gives the meter group, and "DMM1" without its 'DMM' is "1".
Benches == {{"psu", "object_mask", "configuration"},
            {"DMM1", "1", "dmms"}}
\* Device names a configuration may use.
Names == UNION Benches

\* device_info['address'] and  'multimeter' in device_info['definition']  of
\* the configuration documents explored: the meters on one serial port, the
\* other devices on the GPIB controller
AddressOf(name) ==
    IF name = "DMM1" THEN ASRL1_INSTR
    ELSE IF name \in {"object_mask", "1"} THEN ASRL1_RAW
    ELSE GPIB0_INSTR
IsMultimeter(name) == name \in {"DMM1", "object_mask", "1"}

\* outcome of  getattr(import_module(definition), object)
ResolveOutcomes == {"ok", "ModuleNotFoundError", "AttributeError"}
\* outcome of  class_(address, **kwargs): the constructors under multimeter/
\* return, let the VisaIOError of rm.open_resource through, or raise
\* NotImplementedError (HP_3478A_AR488 without ar488py)
ConstructOutcomes == {"ok", "VisaIOError", "NotImplementedError"}
\* outcome of one [method, args] pair of an init sequence: the method is not a
\* callable of the device, it returns, or it raises
PairOutcomes == {"unknown", "ok", "TypeError", "VisaIOError", "ValueError"}

RECURSIVE SeqsUpTo(_, _)
SeqsUpTo(S, n) ==
    IF n = 0 THEN {<<>>}
    ELSE SeqsUpTo(S, n - 1) \cup
         {Append(q, x) : q \in {r \in SeqsUpTo(S, n - 1) : Len(r) = n - 1}, x \in S}

Range(q) == {q[i] : i \in DOMAIN q}
IsInjective(q) == \A i, j \in DOMAIN q : q[i] = q[j] => i = j

\* the configurations: dict keys are unique
Configurations ==
    {q \in SeqsUpTo(Names, MaxDevices) :
        IsInjective(q) /\ \E b \in Benches : Range(q) \subseteq b}
Masks == {NoMask} \cup {[given |-> TRUE, names |-> m] :
                            m \in UNION {SUBSET b : b \in Benches}}

\* values of the attributes of the EnvironmentSetup object
NoneVal == [kind |-> "none"]
ConfigVal == [kind |-> "config"]
MaskVal(m) == IF m.given THEN [kind |-> "mask", names |-> m.names] ELSE NoneVal
InstVal(k) == [kind |-> "inst", session |-> k]
DmmsVal(d) == [kind |-> "Dmms", members |-> d]

\* d[k] = v on a dict kept as a function
DictSet(d, k, v) == [x \in (DOMAIN d) \cup {k} |-> IF x = k THEN v ELSE d[x]]

\* the required-items check comparing with the file's names instead
MaskMissing_ComparesFile(conf, mask) ==
    /\ mask.given
    /\ (Range(conf) \cap mask.names) # Range(conf)

\* common_equipment != self.object_mask  (__init__, the required-items check)
MaskMissing(conf, mask) ==
    /\ mask.given
    /\ (Range(conf) \cap mask.names) # mask.names

\* __make_connections without the pops
FilterConfiguration_KeepsAll(conf, mask) == conf

\* the pops at the head of __make_connections
FilterConfiguration(conf, mask) ==
    IF mask.given
    THEN SelectSeq(conf, LAMBDA n : n \in mask.names)
    ELSE conf

\* device_name.replace('DMM', '')
ShortName(name) == IF name = "DMM1" THEN "1" ELSE name

\* the test both except clauses make before re-raising:
\* self.object_mask is not None
MaskActive(a) == a["object_mask"].kind # "none"

NoInit == [executed |-> <<>>, warnings |-> 0, raised |-> "none"]

\* EnvironmentSetup.__init__ up to the for loop of __make_connections
EnvironmentSetup(conf, mask, init_devices, verbose) ==
    /\ epc = "idle"
    /\ args' = [equipment_setup |-> conf, object_mask |-> mask,
                init_devices |-> init_devices, verbose |-> verbose]
    /\ attrs' = [a \in {"object_mask", "equipment_json_path", "configuration"} |->
                    IF a = "object_mask" THEN MaskVal(mask)
                    ELSE IF a = "configuration" THEN ConfigVal
                    ELSE NoneVal]
    /\ IF MaskMissing(conf, mask)
       THEN /\ epc' = "IOError"
            /\ config' = conf
            /\ events' = <<<<"Missing items", "">>>>
       ELSE /\ epc' = "loop"
            /\ config' = FilterConfiguration(conf, mask)
            /\ events' = <<>>
    /\ idx' = 1
    /\ dmms' = <<>>
    /\ lastInit' = NoInit
    /\ trace' = <<>>
    /\ UNCHANGED <<regVars, sessions, nDirect, lastCall, thrVars, funVars, ioVars, sesVars>>

\* the descriptor of one device together with what its resolution meets:
\* resolve/construct/idn/init are the outcomes of the calls named above,
\* hasInit is  'init' in device_info.  Outcomes of calls the iteration does
\* not reach are left at one value.
DeviceCase(resolve, construct, hasInit, idn, init) ==
    [resolve |-> resolve, construct |-> construct, hasInit |-> hasInit,
     idn |-> idn, init |-> init]

\* the init sequences: a pair that raises anything but TypeError is the last
\* one initiaize_device reads
InitSequences ==
    LET quiet == SeqsUpTo(PairOutcomes \ {"VisaIOError", "ValueError"}, MaxInit)
    IN quiet \cup {Append(q, x) : q \in {r \in quiet : Len(r) < MaxInit},
                                  x \in {"VisaIOError", "ValueError"}}

DeviceCases ==
    {DeviceCase(r, "ok", FALSE, "ok", <<>>) : r \in ResolveOutcomes \ {"ok"}}
    \cup {DeviceCase("ok", c, FALSE, "ok", <<>>) : c \in ConstructOutcomes}
    \cup {DeviceCase("ok", "ok", TRUE, "VisaIOError", <<>>)}
    \cup {DeviceCase("ok", "ok", TRUE, "ok", q) : q \in InitSequences}

\* the for loop printing a line for a pair it skips as well
RECURSIVE RunPairs_ReportsUnknown(_, _, _, _)
RunPairs_ReportsUnknown(seq, i, executed, warnings) ==
    IF i > Len(seq)
    THEN [executed |-> executed, warnings |-> warnings, raised |-> "none"]
    ELSE IF seq[i] = "unknown"
    THEN RunPairs_ReportsUnknown(seq, i + 1, executed, warnings + 1)
    ELSE IF seq[i] = "ok"
    THEN RunPairs_ReportsUnknown(seq, i + 1, Append(executed, i), warnings)
    ELSE IF seq[i] = "TypeError"
    THEN RunPairs_ReportsUnknown(seq, i + 1, Append(executed, i), warnings + 1)
    ELSE [executed |-> Append(executed, i), warnings |-> warnings,
          raised |-> seq[i]]

\* the for loop of initiaize_device from pair i on: the pairs executed so far,
\* the number of TypeError reports printed, and the exception that left the loop
RECURSIVE RunPairs(_, _, _, _)
RunPairs(seq, i, executed, warnings) ==
    IF i > Len(seq)
    THEN [executed |-> executed, warnings |-> warnings, raised |-> "none"]
    ELSE IF seq[i] = "unknown"
    THEN RunPairs(seq, i + 1, executed, warnings)
    ELSE IF seq[i] = "ok"
    THEN RunPairs(seq, i + 1, Append(executed, i), warnings)
    ELSE IF seq[i] = "TypeError"
    THEN RunPairs(seq, i + 1, Append(executed, i), warnings + 1)
    ELSE [executed |-> Append(executed, i), warnings |-> warnings,
          raised |-> seq[i]]

\* get_callable_methods(instance) on a device object: callable(getattr(
\* instance, method)) evaluates every attribute of the instance, the property
\* idn included, and idn queries the instrument; idn is the outcome of that
\* query.  The result is what went to the instrument and what was raised.
GetCallableMethods(idn) ==
    [sent |-> <<"*IDN?">>, raised |-> IF idn = "ok" THEN "none" ELSE idn]

\* initiaize_device(inst, initialization_sequence)
InitiaizeDevice(idn, seq) ==
    IF GetCallableMethods(idn).raised # "none"
    THEN [executed |-> <<>>, warnings |-> 0, raised |-> GetCallableMethods(idn).raised]
    ELSE RunPairs(seq, 1, <<>>, 0)

\* which except clause of __make_connections takes the exception
ExceptClause(exc) ==
    IF exc \in {"VisaIOError", "ConnectionError"} THEN "FAILED CONNECTION"
    ELSE IF exc \in {"ModuleNotFoundError", "AttributeError"} THEN "UNSUPPORTED DEVICE"
    ELSE "uncaught"

\* the second except clause going on to the next device whatever the mask
IterationExit_SkipsUnsupported(exc, a) ==
    IF exc = "none" THEN "loop"
    ELSE IF ExceptClause(exc) = "uncaught" THEN exc
    ELSE IF MaskActive(a) /\ ExceptClause(exc) = "FAILED CONNECTION"
         THEN "ConnectionError"
    ELSE "loop"

\* how one iteration ends: the next iteration, or the exception that leaves
\* __make_connections; a is vars(self) when the exception is handled
IterationExit(exc, a) ==
    IF exc = "none" THEN "loop"
    ELSE IF ExceptClause(exc) = "uncaught" THEN exc
    ELSE IF MaskActive(a) THEN "ConnectionError"
    ELSE "loop"

\* a for statement that takes the same key again
NextIndex_Stays(i, exit) == i

\* the for statement of __make_connections: the next key of the dict, once
\* the body has ended without leaving the method
NextIndex(i, exit) == IF exit = "loop" THEN i + 1 ELSE i

\* what one iteration prints
IterationEvents(name, verbose, constructed, ini, exc, a) ==
    (IF constructed /\ verbose THEN <<<<"CONNECTED", name>>>> ELSE <<>>)
    \o (IF constructed /\ ini # NoInit /\ exc = "none" /\ verbose
        THEN <<<<"Initialzed", name>>>> ELSE <<>>)
    \o (IF exc # "none" /\ ExceptClause(exc) # "uncaught" /\ verbose
        THEN <<<<ExceptClause(exc), name>>>> ELSE <<>>)
    \o (IF exc # "none" /\ ExceptClause(exc) # "uncaught" /\ MaskActive(a)
        THEN <<<<"error", name>>>> ELSE <<>>)

\* one iteration of the for loop of __make_connections
MakeConnection(d) ==
    /\ epc = "loop"
    /\ idx <= Len(config)
    /\ LET name == config[idx] IN
       IF attrs["configuration"].kind # "config"
       THEN \* device_info = self.configuration[device_name] on a device object
            /\ epc' = "TypeError"
            /\ trace' = Append(trace, [name |-> name, entered |-> FALSE,
                                       constructed |-> FALSE, exc |-> "TypeError"])
            /\ UNCHANGED <<regVars, sessions, lastCall, attrs, dmms, events, idx,
                           lastInit, timeouts, assigned>>
       ELSE
         LET called == d.resolve = "ok" /\ d.construct # "NotImplementedError"
             r == IF called
                  THEN OpenInstrument(serial_instruments, opened, openCount,
                                      AddressOf(name), d.construct = "ok")
                  ELSE <<None, serial_instruments, opened, openCount>>
             constructed == called /\ r[1] # None
             attrs1 == IF constructed
                       THEN DictSet(attrs, name, InstVal(Len(sessions) + 1))
                       ELSE attrs
             ini == IF constructed /\ d.hasInit /\ args.init_devices
                    THEN InitiaizeDevice(d.idn, d.init)
                    ELSE NoInit
             exc == IF d.resolve # "ok" THEN d.resolve
                    ELSE IF d.construct = "NotImplementedError" THEN d.construct
                    ELSE IF r[1] = None THEN "VisaIOError"
                    ELSE ini.raised
         IN /\ serial_instruments' = r[2]
            /\ opened' = r[3]
            /\ openCount' = r[4]
            /\ lastCall' = IF called THEN [address |-> AddressOf(name), ret |-> r[1]]
                           ELSE lastCall
            /\ sessions' = IF constructed
                           THEN Append(sessions, [address |-> AddressOf(name),
                                                  instrument |-> r[1]])
                           ELSE sessions
            /\ timeouts' = IF constructed
                           THEN SetHandleTimeout(timeouts, r[1], KwargsGet(NoKwargs))
                           ELSE timeouts
            /\ assigned' = IF constructed
                           THEN Append(assigned, KwargsGet(NoKwargs))
                           ELSE assigned
            /\ attrs' = attrs1
            /\ dmms' = IF constructed /\ IsMultimeter(name)
                       THEN DictSet(dmms, ShortName(name), Len(sessions) + 1)
                       ELSE dmms
            /\ events' = events \o IterationEvents(name, args.verbose,
                                                   constructed, ini, exc, attrs1)
            /\ trace' = Append(trace, [name |-> name, entered |-> TRUE,
                                       constructed |-> constructed, exc |-> exc])
            /\ lastInit' = ini
            /\ epc' = IterationExit(exc, attrs1)
            /\ idx' = NextIndex(idx, IterationExit(exc, attrs1))
    /\ UNCHANGED <<nDirect, thrVars, funVars, ioVars, args, config>>

\* the end of __make_connections: self.dmms, and __init__ returns
Finish ==
    /\ epc = "loop"
    /\ idx > Len(config)
    /\ attrs' = IF DOMAIN dmms # {}
                THEN DictSet(attrs, "dmms", DmmsVal(dmms))
                ELSE attrs
    /\ epc' = "done"
    /\ UNCHANGED <<regVars, sessions, nDirect, lastCall, thrVars, funVars, ioVars, sesVars,
                   args, config, idx, dmms, lastInit, events, trace>>

NextEnv ==
    \/ \E conf \in Configurations, mask \in Masks,
          init_devices \in BOOLEAN, verbose \in BOOLEAN :
            EnvironmentSetup(conf, mask, init_devices, verbose)
    \/ \E d \in DeviceCases : MakeConnection(d)
    \/ Finish

SpecEnv == Init /\ [][NextEnv]_vars

\* ------------------------------------------------- initiaize_device alone
\* a call initiaize_device(inst, initialization_sequence) on a device object:
\* idn is the outcome of the *IDN? query, seq the outcomes of the pairs
InitInit ==
    /\ InitObjects
    /\ fcall \in {[fn |-> "initiaize_device", idn |-> idn, seq |-> seq] :
                    idn \in {"ok", "VisaIOError"},
                    seq \in SeqsUpTo(PairOutcomes, MaxPairs)}
                 \cup {[fn |-> "get_callable_methods", idn |-> idn] :
                        idn \in {"ok", "VisaIOError"}}
    /\ fret = Pending

\* the call runs
CallInitiaizeDevice ==
    /\ fcall.fn = "initiaize_device"
    /\ fret = Pending
    /\ fret' = InitiaizeDevice(fcall.idn, fcall.seq)
    /\ UNCHANGED <<regVars, sessions, nDirect, lastCall, thrVars, envVars, fcall, ioVars, sesVars>>

\* get_callable_methods called on its own
CallGetCallableMethods ==
    /\ fcall.fn = "get_callable_methods"
    /\ fret = Pending
    /\ fret' = GetCallableMethods(fcall.idn)
    /\ UNCHANGED <<regVars, sessions, nDirect, lastCall, thrVars, envVars, fcall, ioVars, sesVars>>

NextInit ==
    \/ CallInitiaizeDevice
    \/ CallGetCallableMethods

SpecInit == InitInit /\ [][NextInit]_vars

\* --------------------------------------------------- Scpi_Instrument.__eq__
\* classes of the package: the Scpi_Instrument of core.py, three of its
\* subclasses, the Scpi_Instrument that __core.py defines (another class
\* object of the same name) and Gpib_Interface
Classes == {"core.Scpi_Instrument", "Fluke_45", "HP_3478A", "Rigol_DS1000Z",
            "__core.Scpi_Instrument", "Gpib_Interface"}

\* cls.__name__
ClassName(cls) ==
    IF cls \in {"core.Scpi_Instrument", "__core.Scpi_Instrument"}
    THEN "Scpi_Instrument"
    ELSE cls

\* isinstance(obj, Scpi_Instrument) as core.py evaluates it
IsScpiInstrument(cls) ==
    cls \in {"core.Scpi_Instrument", "Fluke_45", "HP_3478A", "Rigol_DS1000Z"}

\* an object with its class, its address attribute and the handle it holds
Objects == [cls : Classes, address : {ASRL1_INSTR, asrl1_INSTR, GPIB0_INSTR},
            instrument : 1..MaxHandles]

\* __eq__ without the comparison of the class names
Eq_IgnoresClass(self, obj) ==
    IF ~IsScpiInstrument(obj.cls) THEN FALSE
    ELSE IF ~(self.address = obj.address) THEN FALSE
    ELSE TRUE

\* Scpi_Instrument.__eq__(self, obj)
Eq(self, obj) ==
    IF ~IsScpiInstrument(obj.cls) THEN FALSE
    ELSE IF ~(self.address = obj.address) THEN FALSE
    ELSE IF ~(ClassName(self.cls) = ClassName(obj.cls)) THEN FALSE
    ELSE TRUE

\* Scpi_Instrument.__ne__(self, obj)
Ne(self, obj) == ~Eq(self, obj)

\* a comparison of a session with an object
InitEq ==
    /\ InitObjects
    /\ fcall \in {[fn |-> "__eq__", self |-> self, obj |-> obj] :
                    self \in {o \in Objects : IsScpiInstrument(o.cls)},
                    obj \in Objects}
    /\ fret = Pending

\* self == obj and self != obj are evaluated
Compare ==
    /\ fcall.fn = "__eq__"
    /\ fret = Pending
    /\ fret' = [eq |-> Eq(fcall.self, fcall.obj), ne |-> Ne(fcall.self, fcall.obj),
                raised |-> "none"]
    /\ UNCHANGED <<regVars, sessions, nDirect, lastCall, thrVars, envVars, fcall, ioVars, sesVars>>

NextEq == Compare

SpecEq == InitEq /\ [][NextEq]_vars

\* ---------------------------------------------------------------- Dmms
\* names the meters of a group are registered under, and the labels a mapper
\* renames them to ("out" is also a registered name)
MemberNames == {"in", "out", "aux"}
Labels == {"vin", "out"}

\* the groups: Dmms(**dmms), the attributes in the order of the keywords
Groups == {q \in SeqsUpTo(MemberNames, MaxMembers) : IsInjective(q)}

\* the mappers: dicts from registered names to labels
Mappers == UNION {[D -> Labels] : D \in SUBSET MemberNames}

\* what inst.fetch_data() of the member registered as name returns
Measurement(name) == <<"reading of", name>>

\* mapper.get(name)
MapperGet(mapper, name) ==
    IF name \in DOMAIN mapper THEN mapper[name] ELSE "None"

\* the for loop of Dmms.fetch_data from member i on; failing is the position
\* of the member whose fetch_data raises (0: none does).  fetched lists the
\* members whose fetch_data was called.
RECURSIVE FetchLoop(_, _, _, _, _, _, _)
FetchLoop(members, i, mapper, only_mapped, failing, measurements, fetched) ==
    IF i > Len(members)
    THEN [measurements |-> measurements, fetched |-> fetched, raised |-> "none"]
    ELSE LET name == members[i]
             new_name == MapperGet(mapper, name)
         IN IF new_name = "None" /\ only_mapped
            THEN FetchLoop(members, i + 1, mapper, only_mapped, failing,
                           measurements, fetched)
            ELSE IF failing = i
            THEN [measurements |-> measurements, fetched |-> Append(fetched, name),
                  raised |-> "VisaIOError"]
            ELSE FetchLoop(members, i + 1, mapper, only_mapped, failing,
                           DictSet(measurements,
                                   IF new_name = "None" THEN name ELSE new_name,
                                   Measurement(name)),
                           Append(fetched, name))

\* Dmms.fetch_data(mapper, only_mapped)
FetchData(members, mapper, only_mapped, failing) ==
    FetchLoop(members, 1, mapper, only_mapped, failing, <<>>, <<>>)

\* what calling inst.init() on a member meets: the class has no init
\* (AttributeError of the attribute lookup), init returns, or init raises
InitOutcomes == {"no init", "ok", "AttributeError", "VisaIOError"}

\* the for loop of Dmms.init without its try statement
RECURSIVE InitLoop_NoTry(_, _, _)
InitLoop_NoTry(outcomes, i, invoked) ==
    IF i > Len(outcomes)
    THEN [invoked |-> invoked, raised |-> "none"]
    ELSE IF outcomes[i] = "no init"
    THEN [invoked |-> invoked, raised |-> "AttributeError"]
    ELSE IF outcomes[i] = "ok"
    THEN InitLoop_NoTry(outcomes, i + 1, Append(invoked, i))
    ELSE [invoked |-> Append(invoked, i), raised |-> outcomes[i]]

\* the for loop of Dmms.init from member i on: the positions of the members
\* whose init was called, and the exception that left the loop
RECURSIVE InitLoop(_, _, _)
InitLoop(outcomes, i, invoked) ==
    IF i > Len(outcomes)
    THEN [invoked |-> invoked, raised |-> "none"]
    ELSE IF outcomes[i] = "no init"
    THEN InitLoop(outcomes, i + 1, invoked)
    ELSE IF outcomes[i] \in {"ok", "AttributeError"}
    THEN InitLoop(outcomes, i + 1, Append(invoked, i))
    ELSE [invoked |-> Append(invoked, i), raised |-> outcomes[i]]

\* a group and one call of a method of it
InitDmms ==
    /\ InitObjects
    /\ fcall \in
          {[fn |-> "fetch_data", members |-> g, mapper |-> m, only_mapped |-> o,
            failing |-> f] :
              g \in Groups, m \in Mappers, o \in BOOLEAN, f \in 0..MaxMembers}
          \cup
          {[fn |-> "init", members |-> g, outcomes |-> q] :
              g \in Groups, q \in SeqsUpTo(InitOutcomes, MaxMembers)}
    /\ fcall.fn = "fetch_data" => fcall.failing <= Len(fcall.members)
    /\ fcall.fn = "init" => Len(fcall.outcomes) = Len(fcall.members)
    /\ fret = Pending

\* dmms.fetch_data(mapper, only_mapped) runs
CallFetchData ==
    /\ fcall.fn = "fetch_data"
    /\ fret = Pending
    /\ fret' = FetchData(fcall.members, fcall.mapper, fcall.only_mapped, fcall.failing)
    /\ UNCHANGED <<regVars, sessions, nDirect, lastCall, thrVars, envVars, fcall, ioVars, sesVars>>

\* dmms.init() runs
CallDmmsInit ==
    /\ fcall.fn = "init"
    /\ fret = Pending
    /\ fret' = InitLoop(fcall.outcomes, 1, <<>>)
    /\ UNCHANGED <<regVars, sessions, nDirect, lastCall, thrVars, envVars, fcall, ioVars, sesVars>>

NextDmms == CallFetchData \/ CallDmmsInit

SpecDmms == InitDmms /\ [][NextDmms]_vars

\* ------------------------------------------------------- identify_devices
\* what the scan meets at one locator: the device answers *IDN?, or
\* rm.open_resource raises a pyvisa.Error, or the query does (no response)
ScanOutcomes == {"ok", "open error", "query error"}

\* the for loop of identify_devices from locator i on.  device is the locator
\* the local variable device was last bound at (0: not bound yet); found
\* lists the locators appended to scpi_devices.  The except clause calls
\* device.close(): on the device of this iteration when the query raised, on
\* the (closed) device of an earlier iteration when the open raised, and on
\* an unbound name when no open has succeeded yet.
RECURSIVE ScanLoop(_, _, _, _)
ScanLoop(outs, i, device, found) ==
    IF i > Len(outs)
    THEN [found |-> found, raised |-> "none"]
    ELSE IF outs[i] = "ok"
    THEN ScanLoop(outs, i + 1, i, Append(found, i))
    ELSE IF outs[i] = "query error"
    THEN ScanLoop(outs, i + 1, i, found)
    ELSE IF device = 0
    THEN [found |-> found, raised |-> "UnboundLocalError"]
    ELSE ScanLoop(outs, i + 1, device, found)

\* identify_devices()
IdentifyDevices(outs) == ScanLoop(outs, 1, 0, <<>>)

\* a call of identify_devices with the locators of rm.list_resources()
InitIdentify ==
    /\ InitObjects
    /\ fcall \in {[fn |-> "identify_devices", outs |-> q] :
                    q \in SeqsUpTo(ScanOutcomes, MaxLocators)}
    /\ fret = Pending

\* the call runs
CallIdentifyDevices ==
    /\ fcall.fn = "identify_devices"
    /\ fret = Pending
    /\ fret' = IdentifyDevices(fcall.outs)
    /\ UNCHANGED <<regVars, sessions, nDirect, lastCall, thrVars, envVars, fcall, ioVars, sesVars>>

NextIdentify == CallIdentifyDevices

SpecIdentify == InitIdentify /\ [][NextIdentify]_vars

\* ------------------------------------------------------ the timeout property
\* the timeout setter: session.timeout = timeout
SetTimeout(s, timeout) ==
    /\ s \in DOMAIN sessions
    /\ timeouts' = SetHandleTimeout(timeouts, sessions[s].instrument, timeout)
    /\ assigned' = [assigned EXCEPT ![s] = timeout]
    /\ UNCHANGED <<regVars, sessions, nDirect, lastCall, thrVars, envVars, funVars,
                   ioVars>>

\* the timeout getter of session s
Timeout(s) == timeouts[sessions[s].instrument]

TimeoutValues == {1000, 5000}

NextSession ==
    \/ \E address \in Addresses, ok \in BOOLEAN, kwargs \in Kwargs :
            NewInstrument(address, ok, kwargs)
    \/ \E s \in 1..MaxSessions, timeout \in TimeoutValues : SetTimeout(s, timeout)

SpecSession == Init /\ [][NextSession]_vars

\* --------------------------------------- set_local and group_execute_trigger
\* core.py and __core.py each define Scpi_Instrument; the two classes differ
\* in the except clause of set_local.
Modules == {"core", "__core"}

\* what instrument.control_ren(...) does: it is carried out, the handle's class
\* has no such method (AttributeError), or the interface answers that it does
\* not support the operation (VisaIOError)
ControlRenOutcomes == {"ok", "AttributeError", "VisaIOError"}

\* the except clause of set_local in each module
SetLocalCatches(module) ==
    IF module = "core" THEN {"AttributeError", "VisaIOError"} ELSE {"AttributeError"}

\* set_local() of module `module` on a session holding `handle`: what it sent
\* and what it raised
SetLocal(module, handle, outcome) ==
    [sent |-> IF outcome = "ok"
              THEN <<[cmd |-> "control_ren", to |-> handle]>>
              ELSE <<>>,
     raised |-> IF outcome = "ok" \/ outcome \in SetLocalCatches(module)
                THEN "none" ELSE outcome]

\* the sessions a test script may hand to the bus interface
TriggerDevices ==
    {[address |-> a, instrument |-> h] : a \in {GPIB0_INSTR, ASRL1_INSTR},
                                         h \in 1..MaxHandles}

\* visa_handles = [n.instrument for n in trigger_devices], reversed
RECURSIVE VisaHandles_Reversed(_)
VisaHandles_Reversed(trigger_devices) ==
    IF trigger_devices = <<>> THEN <<>>
    ELSE VisaHandles_Reversed(Tail(trigger_devices))
            \o <<Head(trigger_devices).instrument>>

\* visa_handles = [n.instrument for n in trigger_devices]
RECURSIVE VisaHandles(_)
VisaHandles(trigger_devices) ==
    IF trigger_devices = <<>> THEN <<>>
    ELSE <<Head(trigger_devices).instrument>> \o VisaHandles(Tail(trigger_devices))

\* Gpib_Interface.group_execute_trigger(*trigger_devices): what it sent, all
\* of it to the interface's own handle
GroupExecuteTrigger(trigger_devices) ==
    [sent |-> <<[cmd |-> "group_execute_trigger", to |-> "controller",
                 handles |-> VisaHandles(trigger_devices)]>>,
     raised |-> "none"]

InitBus ==
    /\ InitObjects
    /\ fcall \in {[fn |-> "set_local", module |-> m, handle |-> h, outcome |-> o] :
                        m \in Modules, h \in 1..MaxHandles, o \in ControlRenOutcomes}
                 \cup {[fn |-> "group_execute_trigger", trigger_devices |-> q] :
                        q \in SeqsUpTo(TriggerDevices, MaxTriggered)}
    /\ fret = Pending

CallSetLocal ==
    /\ fcall.fn = "set_local"
    /\ fret = Pending
    /\ fret' = SetLocal(fcall.module, fcall.handle, fcall.outcome)
    /\ UNCHANGED <<regVars, sessions, nDirect, lastCall, thrVars, envVars, fcall,
                   ioVars, sesVars>>

CallGroupExecuteTrigger ==
    /\ fcall.fn = "group_execute_trigger"
    /\ fret = Pending
    /\ fret' = GroupExecuteTrigger(fcall.trigger_devices)
    /\ UNCHANGED <<regVars, sessions, nDirect, lastCall, thrVars, envVars, fcall,
                   ioVars, sesVars>>

NextBus ==
    \/ CallSetLocal
    \/ CallGroupExecuteTrigger

SpecBus == InitBus /\ [][NextBus]_vars

\* ------------------------------------------- query, statement by statement
\* Two callers (threads of the hosting application) call query on sessions
\* that hold one handle (two sessions of one serial port, or one session used
\* by both).  Scpi_Instrument.query hands the message to the handle's query,
\* which writes it and then reads the answer; no lock is taken around the
\* call, so the write and the read of one query are two steps.
QueryWrite(t) ==
    /\ qpc[t] = "idle"
    /\ nq[t] < MaxQueries
    /\ traffic' = Append(traffic, <<"write", t>>)
    /\ qpc' = [qpc EXCEPT ![t] = "written"]
    /\ UNCHANGED <<regVars, sessions, nDirect, lastCall, thrVars, envVars, funVars, nq,
                   flkVars, sesVars>>

QueryRead(t) ==
    /\ qpc[t] = "written"
    /\ traffic' = Append(traffic, <<"read", t>>)
    /\ qpc' = [qpc EXCEPT ![t] = "idle"]
    /\ nq' = [nq EXCEPT ![t] = @ + 1]
    /\ UNCHANGED <<regVars, sessions, nDirect, lastCall, thrVars, envVars, funVars,
                   flkVars, sesVars>>

NextQuery ==
    \/ \E t \in Threads : QueryWrite(t)
    \/ \E t \in Threads : QueryRead(t)

SpecQuery == Init /\ [][NextQuery]_vars

\* ---------------------------------------------------------------- wait_unit
\* meas_func: its n-th call returns readings[n], and the last reading from
\* then on (the measured quantity has settled)
MeasFunc(readings, n) ==
    IF n <= Len(readings) THEN readings[n] ELSE readings[Len(readings)]

\* check_value(value): what it returns and what it raises
CheckValue(value, limit, limit_type) ==
    IF limit_type = "LOW" THEN [ret |-> value > limit, raised |-> "none"]
    ELSE IF limit_type = "HIGH" THEN [ret |-> value < limit, raised |-> "none"]
    ELSE [ret |-> FALSE, raised |-> "ValueError"]

\* the while loop of wait_unit: taken counts the calls of meas_func made, meas
\* is the last reading.  The result says whether wait_unit returned, how many
\* readings it took and what it raised; a loop that only sees the settled
\* reading fail the check never returns.
RECURSIVE WaitLoop(_, _, _, _, _, _)
WaitLoop(readings, limit, limit_type, taken, meas, waiting) ==
    IF ~waiting
    THEN [returned |-> TRUE, taken |-> taken, raised |-> "none"]
    ELSE LET c == CheckValue(meas, limit, limit_type)
         IN IF c.raised # "none"
            THEN [returned |-> FALSE, taken |-> taken, raised |-> c.raised]
            ELSE IF ~c.ret /\ taken >= Len(readings)
            THEN [returned |-> FALSE, taken |-> taken, raised |-> "none"]
            ELSE WaitLoop(readings, limit, limit_type, taken + 1,
                          MeasFunc(readings, taken + 1), ~c.ret)

\* wait_unit(meas_func, limit, limit_type)
WaitUnit(readings, limit, limit_type) ==
    WaitLoop(readings, limit, limit_type, 1, MeasFunc(readings, 1), TRUE)

Values == 0..MaxValue
LimitTypes == {"LOW", "HIGH", "low"}

InitWait ==
    /\ InitObjects
    /\ fcall \in {[fn |-> "wait_unit", readings |-> q, limit |-> l, limit_type |-> t] :
                    q \in SeqsUpTo(Values, MaxReadings) \ {<<>>},
                    l \in Values, t \in LimitTypes}
    /\ fret = Pending

CallWaitUnit ==
    /\ fcall.fn = "wait_unit"
    /\ fret = Pending
    /\ fret' = WaitUnit(fcall.readings, fcall.limit, fcall.limit_type)
    /\ UNCHANGED <<regVars, sessions, nDirect, lastCall, thrVars, envVars, fcall,
                   ioVars, sesVars>>

NextWait == CallWaitUnit

SpecWait == InitWait /\ [][NextWait]_vars

\* ------------------------------------------------ Fluke_45 on a serial port
\* The meter behind Fluke_45('ASRL1::INSTR'): _is_serial is set and the
\* constructor has discarded the receive buffer.  On RS-232 the meter answers
\* every command line with a prompt line, "=>" or "?>", and a query with its
\* data line followed by the prompt.  Lines are kept as tuples.
Ok == <<"=>">>
Prompts == {Ok, <<"?>">>}

\* the data line answering the query made by operation n at nesting level
DataLine(n, level) == <<"data", n, level>>

\* Fluke_45.query from its first statement, on the receive buffer buf.
\* super().query writes the message and reads one line (ret), then self.read()
\* reads one more (resp); when resp is not "=>" the f-string of the log call
\* formats self, __str__ reads self.idn, and idn is self.query('*IDN?'): the
\* same method one level deeper, whose result only goes into the log line.
\* The result is <<what is returned, the buffer left, what is raised>>.
RECURSIVE FlukeQueryFrom(_, _, _)
FlukeQueryFrom(buf, n, level) ==
    IF level > MaxDepth
    THEN <<NoLine, buf, "RecursionError">>
    ELSE LET buf1 == buf \o <<DataLine(n, level), Ok>>
             ret == buf1[1]
             resp == buf1[2]
             buf2 == SubSeq(buf1, 3, Len(buf1))
         IN IF resp = Ok
            THEN <<ret, buf2, "none">>
            ELSE LET idn == FlukeQueryFrom(buf2, n, level + 1)
                 IN IF idn[3] # "none"
                    THEN <<NoLine, idn[2], idn[3]>>
                    ELSE <<ret, idn[2], "none">>

\* Fluke_45.query(message); fetch_data, get_mode, get_rate, get_range and the
\* measure_* methods read the meter through it
FlukeQuery ==
    /\ nops < MaxOps
    /\ LET r == FlukeQueryFrom(rx, nops + 1, 0)
       IN /\ rx' = r[2]
          /\ answer' = [fn |-> "query", ret |-> r[1], raised |-> r[3]]
    /\ nops' = nops + 1
    /\ UNCHANGED <<regVars, sessions, nDirect, lastCall, thrVars, envVars, funVars,
                   qryVars, sesVars>>

\* Fluke_45.write(message): super().write, then one line is read and logged
\* when it is not "=>"; prompt is the meter's answer to the command.
\* set_local, set_range, set_rate, set_mode and set_trigger_source send their
\* command through it.
FlukeWrite(prompt) ==
    /\ nops < MaxOps
    /\ rx' = Tail(Append(rx, prompt))
    /\ answer' = [fn |-> "write", ret |-> NoLine, raised |-> "none"]
    /\ nops' = nops + 1
    /\ UNCHANGED <<regVars, sessions, nDirect, lastCall, thrVars, envVars, funVars,
                   qryVars, sesVars>>

\* Fluke_45.trigger(): self.instrument.write('*TRG'), the handle's own write;
\* nothing is read
FlukeTrigger ==
    /\ nops < MaxOps
    /\ rx' = Append(rx, Ok)
    /\ answer' = [fn |-> "trigger", ret |-> NoLine, raised |-> "none"]
    /\ nops' = nops + 1
    /\ UNCHANGED <<regVars, sessions, nDirect, lastCall, thrVars, envVars, funVars,
                   qryVars, sesVars>>

NextFluke ==
    \/ FlukeQuery
    \/ \E prompt \in Prompts : FlukeWrite(prompt)
    \/ FlukeTrigger

SpecFluke == Init /\ [][NextFluke]_vars

\* ================================================================ properties
\* the short-form key of a locator, letter case set aside
Key(address) == Upper(SplitFirst(address))
HandlesHeld == {sessions[i].instrument : i \in DOMAIN sessions}
RegistryHandles == {serial_instruments[i][2] : i \in DOMAIN serial_instruments}

\* C1: any two sessions on serial locators with the same short-form key,
\* whatever the letter case of the locators, hold the same transport handle.
C1_SameKeySameHandle ==
    \A i, j \in DOMAIN sessions :
        ( /\ IsSerial(sessions[i].address)
          /\ IsSerial(sessions[j].address)
          /\ Key(sessions[i].address) = Key(sessions[j].address) )
        => sessions[i].instrument = sessions[j].instrument

\* C2: sessions on locators whose short-form keys differ never hold the same
\* transport handle.
C2_DistinctKeysDistinctHandles ==
    \A i, j \in DOMAIN sessions :
        Key(sessions[i].address) # Key(sessions[j].address)
        => sessions[i].instrument # sessions[j].instrument

\* C3: with two concurrent callers of open_instrument, at most one handle is
\* ever opened for a serial short-form key and all the callers of that key get
\* it.  Stated for locators written in upper case.
C3_ConcurrentAtMostOneOpen ==
    \A a, b \in {x \in Addresses : IsSerial(x) /\ Upper(x) = x} :
        SplitFirst(a) = SplitFirst(b) =>
            /\ \A h, k \in DOMAIN opened :
                   (opened[h] = a /\ opened[k] = b) => h = k
            /\ \A i, j \in DOMAIN sessions :
                   (sessions[i].address = a /\ sessions[j].address = b)
                   => sessions[i].instrument = sessions[j].instrument

\* C4: the registry holds at most one entry per short-form key.
C4_OneEntryPerKey ==
    \A i, j \in DOMAIN serial_instruments :
        serial_instruments[i][1] = serial_instruments[j][1] => i = j

OwnAttrs == {"object_mask", "equipment_json_path", "configuration"}
\* the device names bound to a device object on the EnvironmentSetup object
Held == {n \in DOMAIN attrs : attrs[n].kind = "inst"}
\* iteration i met a connection failure or an unresolvable implementation
\* before the device was constructed
FailedAt(i) ==
    /\ trace[i].entered
    /\ ~trace[i].constructed
    /\ trace[i].exc \in {"VisaIOError", "ModuleNotFoundError", "AttributeError"}
\* iteration i constructed the device and its init sequence raised
InitFailedAt(i) == trace[i].constructed /\ trace[i].exc # "none"

\* C6: a mask naming a device that is not in the configuration ends __init__
\* with the missing-equipment error before anything is resolved or opened.
C6_MissingMaskFailsFirst ==
    ( /\ epc # "idle"
      /\ args.object_mask.given
      /\ ~(args.object_mask.names \subseteq Range(args.equipment_setup)) )
    => /\ epc = "IOError"
       /\ trace = <<>>
       /\ openCount = 0
       /\ sessions = <<>>
       /\ Held = {}

C6_Witness ==
    /\ epc = "IOError"
    /\ args.equipment_setup # <<>>
    /\ args.object_mask.names \cap Range(args.equipment_setup) # {}

\* C7: with a mask, only devices named in the mask are ever looked up,
\* resolved, constructed, reported or registered.
C7_OnlyMaskedTouched ==
    args.object_mask.given =>
        /\ \A i \in DOMAIN trace : trace[i].name \in args.object_mask.names
        /\ \A i \in DOMAIN events :
               events[i][1] # "Missing items" => events[i][2] \in args.object_mask.names
        /\ (DOMAIN attrs) \ OwnAttrs \subseteq args.object_mask.names \cup {"dmms"}
        /\ Len(sessions) <= Cardinality(args.object_mask.names)
        /\ openCount <= Cardinality(args.object_mask.names)

C7_Witness ==
    /\ epc = "done"
    /\ args.object_mask.given
    /\ trace # <<>>
    /\ ~(Range(args.equipment_setup) \subseteq args.object_mask.names)

\* C8: with a mask, a device that meets a connection failure or does not
\* resolve ends the resolution with the connection-aborted error, and it is
\* the last device attempted.
C8_MaskedFailureAborts ==
    args.object_mask.given =>
        \A i \in DOMAIN trace :
            FailedAt(i) => /\ epc = "ConnectionError"
                           /\ i = Len(trace)
                           /\ idx = i

C8_Witness ==
    /\ args.object_mask.given
    /\ epc = "ConnectionError"
    /\ trace # <<>>
    /\ Len(trace) < Len(config)
    /\ FailedAt(Len(trace))

\* C9: with no mask, a device that meets a connection failure or does not
\* resolve never stops the resolution, and when the resolution is over the
\* object holds exactly the devices whose construction succeeded.
C9_NoMaskNeverStops ==
    ~args.object_mask.given =>
        /\ \A i \in DOMAIN trace :
               FailedAt(i) => (i < Len(trace) \/ epc \in {"loop", "done"})
        /\ epc = "done" =>
               Held = {trace[i].name : i \in {j \in DOMAIN trace : trace[j].constructed}}

\* C10: an exception raised while the init sequence of a constructed device
\* runs never ends the resolution: the loop goes on to the next device.
C10_InitFailureNotFatal ==
    \A i \in DOMAIN trace :
        InitFailedAt(i) => (i < Len(trace) \/ epc \in {"loop", "done"})

\* ------------------------------------------------------- initiaize_device
\* the pairs the for loop reads: all of them unless get_callable_methods or
\* an earlier pair raised something the loop does not catch
Examined ==
    {i \in DOMAIN fcall.seq :
        /\ fcall.idn = "ok"
        /\ \A j \in 1..(i - 1) : fcall.seq[j] \notin {"VisaIOError", "ValueError"}}

\* the claim but for what is printed: executed pairs are in declared order, a
\* pair whose method is not a callable of the device is not executed and
\* raises nothing, and the pair after one failing with bad arguments is
\* executed
InitOrderAndSkip(printing) ==
    (fcall.fn = "initiaize_device" /\ fret # Pending) =>
        /\ \A k, l \in DOMAIN fret.executed :
                k < l => fret.executed[k] < fret.executed[l]
        /\ \A i \in Examined :
                fcall.seq[i] = "unknown" => i \notin Range(fret.executed)
        /\ fret.warnings =
                Cardinality({i \in Examined : fcall.seq[i] \in printing})
        /\ (Range(fcall.seq) \subseteq {"unknown", "ok", "TypeError"} /\ fcall.idn = "ok")
                => fret.raised = "none"
        /\ \A i \in Range(fret.executed) :
                (fcall.seq[i] = "TypeError" /\ i < Len(fcall.seq)
                    /\ fcall.seq[i + 1] # "unknown")
                => (i + 1) \in Range(fret.executed)

MarkedFailedAt(i) ==
    /\ trace[i].exc # "none"
    /\ ExceptClause(trace[i].exc) \in {"FAILED CONNECTION", "UNSUPPORTED DEVICE"}

\* C12: a device goes from pending to connected or from pending to failed and
\* never both: once it is constructed and bound on the object, a failure of
\* its init sequence neither unbinds it nor has it handled and reported as a
\* failed connection.
C12_ConnectedNeverFailed ==
    \A i \in DOMAIN trace :
        trace[i].constructed =>
            /\ ~MarkedFailedAt(i)
            /\ trace[i].name \in DOMAIN attrs
            /\ attrs[trace[i].name].kind \in {"inst", "Dmms"}

\* the sessions a caller can still get at: bound under a name on the object,
\* member of the meter group bound on it, or holding a handle of the registry
Reachable ==
    {k \in DOMAIN sessions :
        \/ \E n \in DOMAIN attrs : attrs[n] = InstVal(k)
        \/ \E n \in DOMAIN attrs :
              /\ attrs[n].kind = "Dmms"
              /\ \E m \in DOMAIN attrs[n].members : attrs[n].members[m] = k
        \/ sessions[k].instrument \in RegistryHandles}

\* C13: nothing is rolled back.  Once a device of the resolution has failed,
\* every session constructed before still holds its open handle, every
\* registry entry made is still there, and every such session is reachable
\* through the EnvironmentSetup object or the registry.
C13_NoRollback ==
    (\E i \in DOMAIN trace : trace[i].exc # "none") =>
        /\ \A k \in DOMAIN sessions : sessions[k].instrument \in DOMAIN opened
        /\ \A k \in DOMAIN sessions :
               IsSerial(sessions[k].address) => sessions[k].instrument \in RegistryHandles
        /\ Reachable = DOMAIN sessions

\* C14: the devices are resolved one at a time in the order of the
\* configuration: the k-th iteration is about the k-th key left in the
\* configuration, it starts only after every earlier device was constructed
\* (its init sequence run) or failed, and no device is attempted twice.
C14_OneAtATimeInOrder ==
    /\ Len(trace) <= Len(config)
    /\ \A i \in DOMAIN trace : trace[i].name = config[i]
    /\ \A i, j \in DOMAIN trace : trace[i].name = trace[j].name => i = j
    /\ config = SelectSeq(args.equipment_setup, LAMBDA n : n \in Range(config))
    /\ epc = "loop" => idx = Len(trace) + 1
    /\ \A i \in 1..(Len(trace) - 1) :
          trace[i].constructed \/ trace[i].exc # "none"
    /\ Len(sessions) = Cardinality({i \in DOMAIN trace : trace[i].constructed})
    /\ openCount <= Len(trace)

C14_Witness ==
    /\ epc = "done"
    /\ Len(trace) = 2
    /\ trace[1].exc # "none"
    /\ trace[2].constructed
    /\ args.equipment_setup = <<"DMM1", "1">>

\* C15: when a resolution with a mask has returned, the device names bound to
\* a device on the object are the names of the mask exactly.
C15_MaskedHeldEqualsMask ==
    (epc = "done" /\ args.object_mask.given) => Held = args.object_mask.names

\* ------------------------------------------------- Scpi_Instrument.__eq__
\* C16: two sessions compare equal exactly when they are of the same class
\* and have the same locator string, whatever handles they hold; != is the
\* negation of ==; sessions of different classes with one locator are unequal.
C16_EqualIffSameTypeAndLocator ==
    (fcall.fn = "__eq__" /\ fret # Pending) =>
        /\ fret.eq <=> ( /\ fcall.self.cls = fcall.obj.cls
                         /\ fcall.self.address = fcall.obj.address )
        /\ fret.ne <=> ~fret.eq

C16_Witness ==
    /\ fcall.fn = "__eq__"
    /\ fret # Pending
    /\ fret.eq
    /\ fcall.self.instrument # fcall.obj.instrument
    /\ fcall.self.cls = "Fluke_45"

\* ---------------------------------------------------------------- Dmms
\* C17: what Dmms.fetch_data returns holds, for every member with an entry in
\* the mapper, that member's measurement under the label of the entry; a
\* member without an entry is under its registered name when only_mapped is
\* false, and is neither fetched nor in the result when only_mapped is true.
C17_FetchDataRemaps ==
    (fcall.fn = "fetch_data" /\ fret # Pending /\ fret.raised = "none") =>
        \A i \in DOMAIN fcall.members :
            LET name == fcall.members[i]
                held == {l \in DOMAIN fret.measurements :
                            fret.measurements[l] = Measurement(name)}
            IN IF name \in DOMAIN fcall.mapper
               THEN fcall.mapper[name] \in held
               ELSE IF fcall.only_mapped
               THEN held = {} /\ name \notin Range(fret.fetched)
               ELSE name \in held

\* the members whose class has an init method
Supporting == {i \in DOMAIN fcall.outcomes : fcall.outcomes[i] # "no init"}
\* how often init was called on member i
TimesInvoked(i) == Cardinality({k \in DOMAIN fret.invoked : fret.invoked[k] = i})
\* the members the loop of Dmms.init gets to: all of them unless the init of
\* an earlier member raised something else than AttributeError
Visited ==
    {i \in DOMAIN fcall.outcomes :
        \A j \in 1..(i - 1) : fcall.outcomes[j] # "VisaIOError"}

\* C18 as stated: Dmms.init calls init exactly once on every member whose
\* class has it, and a member whose class has no init is skipped silently,
\* the members after it still being served.
C18_InitEveryMemberOnce ==
    (fcall.fn = "init" /\ fret # Pending) =>
        /\ \A i \in Supporting : TimesInvoked(i) = 1
        /\ \A i \in DOMAIN fcall.outcomes \ Supporting : TimesInvoked(i) = 0
        /\ fret.raised # "AttributeError"

\* C18, amended: Dmms.init calls init exactly once, in group order, on every
\* member whose class has it up to and including the first one whose init
\* raises something else than AttributeError; that exception ends the call
\* and no later member is served.  A member without init is skipped silently
\* and never ends the fan-out.
C18_InitUntilFirstError ==
    (fcall.fn = "init" /\ fret # Pending) =>
        /\ \A i \in Supporting : TimesInvoked(i) = (IF i \in Visited THEN 1 ELSE 0)
        /\ \A i \in DOMAIN fcall.outcomes \ Supporting : TimesInvoked(i) = 0
        /\ \A k, l \in DOMAIN fret.invoked : k < l => fret.invoked[k] < fret.invoked[l]
        /\ fret.raised # "AttributeError"
        /\ fret.raised = "none" <=> Visited = DOMAIN fcall.outcomes
                                    /\ "VisaIOError" \notin Range(fcall.outcomes)

C18_Witness ==
    /\ fcall.fn = "init"
    /\ fret # Pending
    /\ fcall.outcomes = <<"no init", "ok">>
    /\ fret.invoked = <<2>>
    /\ fret.raised = "none"

\* --------------------------------------------------------- EnvironmentSetup
\* the iterations that constructed a meter, the session each constructed, and
\* the meter group bound on the object (empty when there is none)
ConnectedMeters ==
    {i \in DOMAIN trace : trace[i].constructed /\ IsMultimeter(trace[i].name)}
SessionOf(i) == Cardinality({j \in 1..i : trace[j].constructed})
Group ==
    IF "dmms" \in DOMAIN attrs /\ attrs["dmms"].kind = "Dmms"
    THEN attrs["dmms"].members
    ELSE <<>>

\* C19: when the resolution has returned, every constructed device of the
\* multimeter family is a member of the group under its short name, every
\* member of the group is such a device, and the group has as many members
\* as there are constructed meters.
C19_GroupIsTheConnectedMeters ==
    epc = "done" =>
        /\ \A i \in ConnectedMeters :
              /\ ShortName(trace[i].name) \in DOMAIN Group
              /\ Group[ShortName(trace[i].name)] = SessionOf(i)
        /\ \A m \in DOMAIN Group :
              \E i \in ConnectedMeters : Group[m] = SessionOf(i)
        /\ Cardinality(DOMAIN Group) = Cardinality(ConnectedMeters)

\* ------------------------------------------------------- identify_devices
\* C20: identify_devices never fails because of a locator: it returns, and
\* what it returns lists exactly the locators that answered the
\* identification query, in the order of enumeration.
C20_ScanSkipsBadLocators ==
    (fcall.fn = "identify_devices" /\ fret # Pending) =>
        /\ fret.raised = "none"
        /\ fret.found = SelectSeq([i \in DOMAIN fcall.outs |-> i],
                                  LAMBDA i : fcall.outs[i] = "ok")

\* ------------------------------------------------------------------- query
\* C21: on a handle, the write of a query is followed at once by the read of
\* the same query: no write or read of another caller comes between them.
C21_QueryAtomic ==
    \A i \in DOMAIN traffic :
        (traffic[i][1] = "write" /\ i < Len(traffic))
            => traffic[i + 1] = <<"read", traffic[i][2]>>

\* --------------------------------------------------- set_local, group trigger
\* C22: when the transport does not support the return-to-local operation,
\* set_local raises nothing and sends nothing.
C22_SetLocalSilent ==
    (fret # Pending /\ fcall.fn = "set_local"
        /\ fcall.outcome \in {"AttributeError", "VisaIOError"})
        => (fret.raised = "none" /\ fret.sent = <<>>)

\* C23: group_execute_trigger sends one command, a group trigger to the
\* controller, that carries the handle of every given session in the given
\* order; it sends nothing to a device.
C23_OneGroupTrigger ==
    (fret # Pending /\ fcall.fn = "group_execute_trigger")
        => /\ Len(fret.sent) = 1
           /\ fret.sent[1].cmd = "group_execute_trigger"
           /\ fret.sent[1].to = "controller"
           /\ Len(fret.sent[1].handles) = Len(fcall.trigger_devices)
           /\ \A i \in DOMAIN fcall.trigger_devices :
                fret.sent[1].handles[i] = fcall.trigger_devices[i].instrument

\* a group trigger of several sessions whose handles differ has returned
C23_Witness ==
    /\ fret # Pending
    /\ fcall.fn = "group_execute_trigger"
    /\ Len(fcall.trigger_devices) >= 2
    /\ fcall.trigger_devices[1].instrument # fcall.trigger_devices[2].instrument

C26_TimeoutIsOwn ==
    \A s \in DOMAIN sessions : Timeout(s) = assigned[s]

\* ------------------------------------------------------ names on the object
\* C25: when the resolution has returned, every constructed device is bound
\* on the object under its configured name, whatever that name is, and the
\* mask, the configuration and the meter group are still bound under theirs.
C25_NamesNeverClash ==
    epc = "done" =>
        /\ \A i \in DOMAIN trace :
              trace[i].constructed =>
                  /\ trace[i].name \in DOMAIN attrs
                  /\ attrs[trace[i].name] = InstVal(SessionOf(i))
        /\ attrs["object_mask"] = MaskVal(args.object_mask)
        /\ attrs["configuration"] = ConfigVal
        /\ ConnectedMeters # {} =>
              ("dmms" \in DOMAIN attrs /\ attrs["dmms"].kind = "Dmms")

\* ------------------------------------------------- get_callable_methods
\* C27: an init sequence performs only its declared pairs that name a
\* recognized operation, so whatever it raises was raised by a pair it
\* executed; collecting the recognized operations sends nothing to the
\* instrument and raises no transport error.
C27_InitOnlyDeclaredPairs ==
    /\ (fcall.fn = "initiaize_device" /\ fret # Pending) =>
          /\ \A i \in Range(fret.executed) :
                i \in DOMAIN fcall.seq /\ fcall.seq[i] # "unknown"
          /\ fret.raised # "none" => fret.executed # <<>>
    /\ (fcall.fn = "get_callable_methods" /\ fret # Pending) =>
          /\ fret.sent = <<>>
          /\ fret.raised = "none"

\* ------------------------------------------------------ Dmms.fetch_data
\* the members fetch_data includes: all of them, or with only_mapped those
\* with an entry in the mapper
Included ==
    {fcall.members[i] : i \in {j \in DOMAIN fcall.members :
                                  ~fcall.only_mapped \/ fcall.members[j] \in DOMAIN fcall.mapper}}

\* C28: a fetch_data that returns fetched every included member exactly once
\* and returns one entry per fetched member, holding that member's
\* measurement: none is lost or overwritten, whatever the mapper.
C28_OneEntryPerFetch ==
    (fcall.fn = "fetch_data" /\ fret # Pending /\ fret.raised = "none") =>
        /\ Range(fret.fetched) = Included
        /\ IsInjective(fret.fetched)
        /\ Cardinality(DOMAIN fret.measurements) = Len(fret.fetched)
        /\ \A i \in DOMAIN fret.fetched :
              \E l \in DOMAIN fret.measurements :
                  fret.measurements[l] = Measurement(fret.fetched[i])

\* ---------------------------------------------------------------- wait_unit
\* the readings that satisfy the limit of the call
Satisfying ==
    {n \in DOMAIN fcall.readings :
        \/ fcall.limit_type = "LOW" /\ fcall.readings[n] > fcall.limit
        \/ fcall.limit_type = "HIGH" /\ fcall.readings[n] < fcall.limit}

\* C30: wait_unit returns only after a reading satisfied the limit, it
\* returns whenever some reading does, the satisfying reading is the last one
\* it takes, and a limit_type other than "LOW" and "HIGH" raises ValueError.
C30_WaitStopsAtFirstSatisfying ==
    (fcall.fn = "wait_unit" /\ fret # Pending) =>
        /\ fcall.limit_type \notin {"LOW", "HIGH"} => fret.raised = "ValueError"
        /\ fret.returned => \E n \in Satisfying : n <= fret.taken
        /\ Satisfying # {} => fret.returned
        /\ fret.returned => fret.taken \in Satisfying

\* ------------------------------------------------ Fluke_45 on a serial port
\* C29: between operations on a serial Fluke_45 no line is left unread in the
\* receive buffer, and a query that returns returns the data line the meter
\* sent for that query.
C29_NoStalePrompt ==
    /\ rx = <<>>
    /\ (answer.fn = "query" /\ answer.raised = "none")
          => answer.ret = DataLine(nops, 0)

====
